---- MODULE Spec2Model ----
(***************************************************************************)
(* Model of the point-cloud preprocessing pipeline of PoInt-Net-Recon      *)
(* (src/pc_preprocessing.py) and of the early stopping and run naming of   *)
(* its training script (src/train.py).                                     *)
(*                                                                         *)
(* Units.  Positions are integer triples.  In the edge detector one model  *)
(* unit of length is chosen so that the search radius 0.1 of the source    *)
(* lies strictly between the grid distances 1 and 2 (RadiusSq = 2 between  *)
(* the squared distances 1 and 4), so no point lies exactly on the radius. *)
(* Normals are integer triples with components in -1..1 (the two          *)
(* directions of one axis and the zero vector), so every dot product is   *)
(* an exact integer.                                                       *)
(* Python indices are 0-based; rows are numbered 1..N here.                *)
(* A mean is a record [nan, num, den]: num/den, or NaN when nan is TRUE.   *)
(* Threshold k in 0..9 stands for the literal k/10 of the source.          *)
(* In the downsampler a table row carries its scalings as counters, so     *)
(* that the divisions by 65536 and by 1000000 and the voxel means stay     *)
(* exact in integers.                                                      *)
(* In main a table is its column layout, a file name is a tuple of         *)
(* one-character strings, and the normal remap is computed in a binary     *)
(* floating point of MantBits significant bits, rounding to nearest even.  *)
(* Each function has its own specification; the variables of the others    *)
(* stay at their idle values.                                              *)
(***************************************************************************)
EXTENDS Integers, Sequences, FiniteSets, TLC

\* ------------------------------------------------------------------ bounds
MaxPoints == 3

PosMax == 2

MaxVoxel == 2

MaxFiles == 2

MaxPathLen == 4

MantBits == 8

MaxRuns == 2

MaxEpochs == 4

MaxPatience == 3

MaxDelta == 1

MaxLoss == 2

\* ------------------------------------------------------------- variables
VARIABLES
    \* detect_edge_points
    point_cloud_file_path, \* parameter point_cloud_file_path, as its characters
    point_cloud_np,        \* positions loaded from point_cloud_file_path
    normals_np,            \* table loaded from normals_file_path (stored range, doubled)
    save_mask,             \* parameter save_mask
    normals,               \* np.asarray(pcd.normals) after estimate_normals
    i,                     \* loop variable of the loop over the points (0: not started)
    local_idx,             \* idx[1:] of every iteration so far, as index sets
    mean_cos_similarity,   \* mean_cos_similarity of every iteration so far
    edge_indices,          \* edge_indices_0 .. edge_indices_9
    binary_mask,           \* binary_mask_0 .. binary_mask_9
    saved,                 \* mask files written by np.save, by file name
    pc_detect,             \* position in detect_edge_points
    err_detect             \* exception that ended detect_edge_points

detect_vars == <<point_cloud_file_path, point_cloud_np, normals_np, save_mask,
                 normals, i, local_idx,
                 mean_cos_similarity, edge_indices, binary_mask, saved,
                 pc_detect, err_detect>>

VARIABLES
    \* process_point_clouds, one file of the folder
    file,                  \* rows of the .npy file at file_path
    voxel_size,            \* parameter voxel_size
    pcd_data,              \* table loaded from the file, colors normalized
    pcd_lidar,             \* pcd_data[:, 6]
    downsampled_points,    \* np.asarray(downsampled_pcd.points)
    downsampled_colors,    \* np.asarray(downsampled_pcd.colors)
    indices,               \* indices returned by tree.query
    downsampled_lidar,     \* pcd_lidar[indices]
    written,               \* np.save has overwritten the file
    runs,                  \* completed runs of the stage on the file
    pc_down,               \* position in the body of the loop over the files
    err_down               \* exception that ended process_point_clouds

down_vars == <<file, voxel_size, pcd_data, pcd_lidar, downsampled_points,
               downsampled_colors, indices, downsampled_lidar, written, runs,
               pc_down, err_down>>

VARIABLES
    \* main: the three batch loops over the files of a folder
    input_folder,          \* the files of input_folder, by name
    output_folder,         \* the .npy tables of output_folder, by name
    output_normal,         \* the .npy tables of output_normal, by name
    stage,                 \* the function main is in ("start" before, "done" after)
    listing,               \* names of os.listdir not yet iterated over
    filename,              \* loop variable while the loop body runs, else NoFile
    loaded,                \* what the loop body has loaded from that file
    stages_run,            \* the functions main has called so far, in order
    err_main               \* exception that ended main

main_vars == <<input_folder, output_folder, output_normal, stage, listing,
               filename, loaded, stages_run, err_main>>

VARIABLES
    \* process_and_normalize_normals, one component of one normal
    component,             \* one entry x of normals_np (line 134), in grid units
    normalized_normals,    \* the entry of normalized_normals computed from it
    pc_remap               \* position in the body of the loop over the files

remap_vars == <<component, normalized_normals, pc_remap>>

VARIABLES
    \* train_model (src/train.py)
    epochs,                     \* parameter epochs
    early_stopping_patience,    \* parameter early_stopping_patience
    early_stopping_delta,       \* parameter early_stopping_delta
    epoch,                      \* loop variable (-1: the loop has not started)
    epoch_val_loss,             \* validation loss of the epoch
    best_val_loss,              \* best_val_loss
    epochs_without_improvement, \* epochs_without_improvement
    pc_train                    \* position in train_model

train_vars == <<epochs, early_stopping_patience, early_stopping_delta, epoch,
                epoch_val_loss, best_val_loss, epochs_without_improvement,
                pc_train>>

VARIABLES
    \* main_train (src/train.py)
    opt,                   \* the parsed flags
    save_model_path,       \* opt.save_model_path, by the folder it names
    wandb_name,            \* the local wandb_name, Unbound until assigned
    pc_run,                \* position in main_train
    err_run                \* exception that ended main_train

run_vars == <<opt, save_model_path, wandb_name, pc_run, err_run>>

vars == <<detect_vars, down_vars, main_vars, remap_vars, train_vars, run_vars>>

\* the variables outside each component
outside_detect == <<down_vars, main_vars, remap_vars, train_vars, run_vars>>

outside_down == <<detect_vars, main_vars, remap_vars, train_vars, run_vars>>

outside_main == <<detect_vars, down_vars, remap_vars, train_vars, run_vars>>

outside_remap == <<detect_vars, down_vars, main_vars, train_vars, run_vars>>

outside_train == <<detect_vars, down_vars, main_vars, remap_vars, run_vars>>

outside_run == <<detect_vars, down_vars, main_vars, remap_vars, train_vars>>

\* --------------------------------------------------------------- helpers
Dot(a, b) == a[1] * b[1] + a[2] * b[2] + a[3] * b[3]

Dist2(p, q) ==
    (p[1] - q[1]) * (p[1] - q[1]) + (p[2] - q[2]) * (p[2] - q[2])
        + (p[3] - q[3]) * (p[3] - q[3])

SeqElems(s) == {s[n] : n \in 1..Len(s)}

\* Input domains
Positions == {<<x, 0, 0>> : x \in 0..PosMax}

ZeroNormal == <<0, 0, 0>>

NormalVectors == {ZeroNormal, <<0, 0, 1>>, <<0, 0, -1>>}

\* pcd.estimate_normals followed by np.asarray(pcd.normals): one vector per
\* point.  The estimate is a function of the neighborhood of the point's
\* coordinates, so points at the same coordinates get the same vector.
EstimatedNormals(points) ==
    {nrm \in [1..Len(points) -> NormalVectors] :
        \A a, b \in 1..Len(points) : points[a] = points[b] => nrm[a] = nrm[b]}

\* (x + 1) / 2 * 255 of one component, kept doubled so that 127.5 is 255
Remap2(x) == (x + 1) * 255

\* inverse of the remapping on a doubled stored component
Denormalize2(y) == (y - 255) \div 255

StoredNormals == {<<Remap2(n[1]), Remap2(n[2]), Remap2(n[3])>> : n \in {<<0, 0, 1>>, <<0, 0, -1>>}}

\* normal tables as process_and_normalize_normals stores them
StoredTables(n) == {[r \in 1..n |-> s] : s \in StoredNormals}

Thresholds == 0..9

\* squared search radius of search_radius_vector_3d, in model units
RadiusSq == 2

\* pcd_tree.search_radius_vector_3d(points[q], r): the indices of every point
\* within the radius of point q
WithinRadius(points, q) ==
    {j \in 1..Len(points) : Dist2(points[j], points[q]) < RadiusSq}

\* idx[0]: the result is ascending by distance, so its first entry is a point
\* at the least distance from the query; the query is a point of the cloud,
\* so that distance is 0.  The library fixes no order among equal distances.
FirstResults(points, q) ==
    {j \in WithinRadius(points, q) :
        \A k \in WithinRadius(points, q) :
            Dist2(points[j], points[q]) <= Dist2(points[k], points[q])}

\* idx[1:] as a set of indices, for a result whose first entry is first
LocalIdx(points, q, first) == WithinRadius(points, q) \ {first}

\* The search is a function of the tree and of the query coordinates: a query
\* at the coordinates of an earlier query returns the same list, hence the
\* same idx[1:].  hist holds idx[1:] of the earlier queries, in point order.
RepeatsEarlier(points, hist, q, first) ==
    \A p \in 1..Len(hist) :
        points[p] = points[q] => hist[p] = LocalIdx(points, q, first)

RECURSIVE SumDots(_, _, _)
SumDots(nrm, J, q) ==
    IF J = {} THEN 0
    ELSE LET j == CHOOSE x \in J : TRUE
         IN  Dot(nrm[j], nrm[q]) + SumDots(nrm, J \ {j}, q)

\* np.dot(normals[idx[1:], :], normals[i]), as its sum and its length
CosSimilarity(nrm, J, q) == [sum |-> SumDots(nrm, J, q), len |-> Cardinality(J)]

NaN == [nan |-> TRUE, num |-> 0, den |-> 1]

\* np.mean: NaN on an empty array
MeanZeroOnEmpty(cs) ==
    IF cs.len = 0 THEN [nan |-> FALSE, num |-> 0, den |-> 1]
    ELSE [nan |-> FALSE, num |-> cs.sum, den |-> cs.len]

Mean(cs) ==
    IF cs.len = 0 THEN NaN
    ELSE [nan |-> FALSE, num |-> cs.sum, den |-> cs.len]

\* mean_cos_similarity < k/10; every comparison with NaN is false
BelowOrEqual(m, k) == ~m.nan /\ 10 * m.num <= k * m.den

BelowFlipped(m, k) ==
    ~m.nan /\ (IF k = 3 THEN 10 * m.num > k * m.den ELSE 10 * m.num < k * m.den)

Below(m, k) == ~m.nan /\ 10 * m.num < k * m.den

\* np.zeros(len(points)); mask[edge_indices] = 1
MaskOf(n, edges) ==
    [j \in 1..n |-> IF j \in SeqElems(edges) THEN 1 ELSE 0]

NoMasks == [k \in {} |-> <<>>]

\* ---- file names, as sequences of characters
Digits == {"0", "1", "2", "3", "4", "5", "6", "7", "8", "9"}

MaxOf(S) == CHOOSE x \in S : \A y \in S : x >= y

LeastOf(S) == CHOOSE x \in S : \A y \in S : x <= y

PlacesOf(str, c) == {p \in 1..Len(str) : str[p] = c}

\* os.path.basename(path): what follows the last "/"
Basename(path) ==
    IF PlacesOf(path, "/") = {} THEN path
    ELSE SubSeq(path, MaxOf(PlacesOf(path, "/")) + 1, Len(path))

\* str.split(c)[0]: what precedes the first c
BeforeFirst(str, c) ==
    IF PlacesOf(str, c) = {} THEN str
    ELSE SubSeq(str, 1, LeastOf(PlacesOf(str, c)) - 1)

\* c.join(str.split(c)[1:]): what follows the first c, nothing without a c
AfterFirst(str, c) ==
    IF PlacesOf(str, c) = {} THEN <<>>
    ELSE SubSeq(str, LeastOf(PlacesOf(str, c)) + 1, Len(str))

\* lines 241-242: pc_number
PcNumber(path) == AfterFirst(BeforeFirst(Basename(path), "."), "_")

\* the last place of the run of digits that starts at place p
DigitRunEnd(str, p) ==
    LeastOf({e \in p..Len(str) : e = Len(str) \/ str[e + 1] \notin Digits})

\* the places where the pattern \d+\.\d+ matches
DecimalStarts(str) ==
    {p \in 1..Len(str) :
        /\ str[p] \in Digits
        /\ \E e \in {DigitRunEnd(str, p)} :
              /\ e + 2 <= Len(str)
              /\ str[e + 1] = "."
              /\ str[e + 2] \in Digits}

NoneText == <<"N", "o", "n", "e">>

\* line 243: voxel_size, the first match of \d+\.\d+ in the path, else None
VoxelSizeText(path) ==
    IF DecimalStarts(path) = {} THEN NoneText
    ELSE LET p == LeastOf(DecimalStarts(path))
         IN  SubSeq(path, p, DigitRunEnd(path, DigitRunEnd(path, p) + 2))

\* {0}, {0.1}, ..., {0.9} as formatted by the f-strings of lines 244-253
ThresholdText(k) ==
    IF k = 0 THEN <<"0">>
    ELSE <<"0", ".", <<"1", "2", "3", "4", "5", "6", "7", "8", "9">>[k]>>

\* lines 244-253: mask_filename_k
MaskFilenameWithoutThreshold(path, k) ==
    <<"f", "i", "n", "a", "l", "_">> \o PcNumber(path) \o <<"_">>
        \o VoxelSizeText(path)
        \o <<"_", "e", "d", "g", "e", "_", "m", "a", "s", "k", "_", "t", "h", "r",
             "e", "s", "h", "o", "l", "d", "_", "m", "e", "a", "n", "_">>
        \o <<".", "n", "p", "y">>

MaskFilename(path, k) ==
    <<"f", "i", "n", "a", "l", "_">> \o PcNumber(path) \o <<"_">>
        \o VoxelSizeText(path)
        \o <<"_", "e", "d", "g", "e", "_", "m", "a", "s", "k", "_", "t", "h", "r",
             "e", "s", "h", "o", "l", "d", "_", "m", "e", "a", "n", "_">>
        \o ThresholdText(k)
        \o <<".", "n", "p", "y">>

\* lines 266-275: the ten np.save calls in order; a later call overwrites the
\* file of an earlier call of the same name
SavedMasks(filenames, masks) ==
    [name \in {filenames[k] : k \in Thresholds} |->
        masks[MaxOf({k \in Thresholds : filenames[k] = name})]]

\* the path of the call at line 289
MainPath ==
    <<"D", "a", "t", "a", "/", "p", "c", "d", "/", "p", "c", "d", "_", "f", "r",
      "o", "m", "_", "l", "a", "z", "_", "w", "i", "t", "h", "_", "i", "_", "0",
      ".", "3", "/", "f", "i", "n", "a", "l", "_", "2", "4", "4", "8", "_", "9",
      "7", "0", "7", ".", "n", "p", "y">>

\* the characters a path is built from here: a letter, a digit, and the
\* three characters the code looks for
PathChars == {"a", "1", ".", "_", "/"}

\* paths that name a file
Paths ==
    {path \in UNION {[1..n -> PathChars] : n \in 1..MaxPathLen} :
        path[Len(path)] /= "/"}

\* detect_edge_points not running
IdleDetect ==
    /\ point_cloud_file_path = <<>>
    /\ point_cloud_np = <<>>
    /\ normals_np = <<>>
    /\ save_mask = FALSE
    /\ normals = <<>>
    /\ i = 0
    /\ local_idx = <<>>
    /\ mean_cos_similarity = <<>>
    /\ edge_indices = [k \in Thresholds |-> <<>>]
    /\ binary_mask = NoMasks
    /\ saved = NoMasks
    /\ pc_detect = "idle"
    /\ err_detect = "none"

\* process_point_clouds not running
IdleDown ==
    /\ file = <<>>
    /\ voxel_size = 1
    /\ pcd_data = <<>>
    /\ pcd_lidar = <<>>
    /\ downsampled_points = <<>>
    /\ downsampled_colors = <<>>
    /\ indices = <<>>
    /\ downsampled_lidar = <<>>
    /\ written = FALSE
    /\ runs = 0
    /\ pc_down = "idle"
    /\ err_down = "none"

NoFile == 0

NoFiles == [n \in {} |-> <<>>]

\* main not running
IdleMain ==
    /\ input_folder = NoFiles
    /\ output_folder = NoFiles
    /\ output_normal = NoFiles
    /\ stage = "idle"
    /\ listing = {}
    /\ filename = NoFile
    /\ loaded = <<>>
    /\ stages_run = <<>>
    /\ err_main = "none"

\* process_and_normalize_normals not running
IdleRemap ==
    /\ component = 0
    /\ normalized_normals = 0
    /\ pc_remap = "idle"

Infinity == [kind |-> "inf", val |-> 0]

\* train_model not running
IdleTrain ==
    /\ epochs = 0
    /\ early_stopping_patience = 0
    /\ early_stopping_delta = 0
    /\ epoch = -1
    /\ epoch_val_loss = Infinity
    /\ best_val_loss = Infinity
    /\ epochs_without_improvement = 0
    /\ pc_train = "idle"

Unbound == "unbound"

\* main_train not running
IdleRun ==
    /\ opt = <<>>
    /\ save_model_path = "default"
    /\ wandb_name = Unbound
    /\ pc_run = "idle"
    /\ err_run = "none"

\* the stages of src/pc_preprocessing.py not running
IdlePreprocessing == IdleDetect /\ IdleDown /\ IdleMain /\ IdleRemap

\* the functions of src/train.py not running
IdleTraining == IdleTrain /\ IdleRun

\* -------------------------------------------------- detect_edge_points
InitDetect ==
    /\ IdleDown
    /\ IdleMain
    /\ IdleRemap
    /\ IdleTraining
    /\ point_cloud_file_path = MainPath
    /\ \E n \in 1..MaxPoints :
          /\ point_cloud_np \in [1..n -> Positions]
          /\ normals_np \in StoredTables(n)
    /\ save_mask = TRUE
    /\ normals = <<>>
    /\ i = 0
    /\ local_idx = <<>>
    /\ mean_cos_similarity = <<>>
    /\ edge_indices = [k \in Thresholds |-> <<>>]
    /\ binary_mask = NoMasks
    /\ saved = NoMasks
    /\ pc_detect = "load"
    /\ err_detect = "none"

\* lines 157-184: load, estimate normals from the positions, build the tree
DetectLoad ==
    /\ pc_detect = "load"
    /\ normals' \in EstimatedNormals(point_cloud_np)
    /\ pc_detect' = "loop"
    /\ UNCHANGED <<point_cloud_file_path, point_cloud_np, normals_np, save_mask, i, local_idx,
                   mean_cos_similarity, edge_indices, binary_mask, saved,
                   err_detect>>
    /\ UNCHANGED outside_detect

\* lines 187-214: one iteration of the loop over the points
DetectLoopStep ==
    /\ pc_detect = "loop"
    /\ i < Len(normals)
    /\ i' = i + 1
    /\ \E first \in FirstResults(point_cloud_np, i') :
       RepeatsEarlier(point_cloud_np, local_idx, i', first) /\
       \E J \in {LocalIdx(point_cloud_np, i', first)} :
       \E m \in {Mean(CosSimilarity(normals, J, i'))} :
          /\ local_idx' = Append(local_idx, J)
          /\ mean_cos_similarity' = Append(mean_cos_similarity, m)
          /\ edge_indices' =
                [k \in Thresholds |->
                    IF Below(m, k) THEN Append(edge_indices[k], i')
                    ELSE edge_indices[k]]
    /\ UNCHANGED <<point_cloud_file_path, point_cloud_np, normals_np, save_mask, normals,
                   binary_mask, saved, pc_detect, err_detect>>
    /\ UNCHANGED outside_detect

\* lines 216-237: the ten binary masks
DetectBuildMasks ==
    /\ pc_detect = "loop"
    /\ i = Len(normals)
    /\ binary_mask' =
          [k \in Thresholds |-> MaskOf(Len(point_cloud_np), edge_indices[k])]
    /\ pc_detect' = "masks"
    /\ UNCHANGED <<point_cloud_file_path, point_cloud_np, normals_np, save_mask, normals, i, local_idx,
                   mean_cos_similarity, edge_indices, saved, err_detect>>
    /\ UNCHANGED outside_detect

\* lines 239-275: np.save of every mask when save_mask is set.  save_mask
\* holds the default of the signature until line 239 reads it; the caller's
\* argument is drawn there.
DetectSave ==
    /\ pc_detect = "masks"
    /\ \E arg \in BOOLEAN :
          /\ save_mask' = arg
          /\ IF arg
             THEN \E filenames \in
                      {[k \in Thresholds |-> MaskFilename(point_cloud_file_path, k)]} :
                      saved' = SavedMasks(filenames, binary_mask)
             ELSE saved' = saved
    /\ pc_detect' = "return"
    /\ UNCHANGED <<point_cloud_file_path, point_cloud_np, normals_np, normals, i, local_idx,
                   mean_cos_similarity, edge_indices, binary_mask,
                   err_detect>>
    /\ UNCHANGED outside_detect

\* line 277: return binary_mask; the name binary_mask is bound nowhere
DetectReturn ==
    /\ pc_detect = "return"
    /\ pc_detect' = "error"
    /\ err_detect' = "NameError"
    /\ UNCHANGED <<point_cloud_file_path, point_cloud_np, normals_np, save_mask, normals, i, local_idx,
                   mean_cos_similarity, edge_indices, binary_mask, saved>>
    /\ UNCHANGED outside_detect

NextDetect ==
    \/ DetectLoad
    \/ DetectLoopStep
    \/ DetectBuildMasks
    \/ DetectSave
    \/ DetectReturn

SpecDetect == InitDetect /\ [][NextDetect]_vars

\* detect_edge_points called with any path, on a cloud of two points at the
\* same place
InitDetectPaths ==
    /\ IdleDown
    /\ IdleMain
    /\ IdleRemap
    /\ IdleTraining
    /\ point_cloud_file_path \in Paths
    /\ point_cloud_np = <<<<0, 0, 0>>, <<0, 0, 0>>>>
    /\ normals_np = [r \in 1..2 |-> <<Remap2(0), Remap2(0), Remap2(1)>>]
    /\ save_mask = TRUE
    /\ normals = <<>>
    /\ i = 0
    /\ local_idx = <<>>
    /\ mean_cos_similarity = <<>>
    /\ edge_indices = [k \in Thresholds |-> <<>>]
    /\ binary_mask = NoMasks
    /\ saved = NoMasks
    /\ pc_detect = "load"
    /\ err_detect = "none"

SpecDetectPaths == InitDetectPaths /\ [][NextDetect]_vars

\* ------------------------------------------------ process_point_clouds
\* A table row is a record
\*   [pos, pavg, pexp, color, cavg, cexp, lidar]
\* that stands for the 7 columns
\*   pos[a] / (MeanScale^pavg * 1000000^pexp),
\*   color[a] / (MeanScale^cavg * 65536^cexp), lidar.
\* MeanScale is a multiple of every possible voxel population, so that a mean
\* of up to MaxPoints values is an exact integer over MeanScale.
\* A file written by process_laz_files has pavg = pexp = cavg = cexp = 0.
\* the attributes (color, intensity) of the input points
RawAttributes ==
    {[color |-> <<0, 0, 0>>, lidar |-> 10],
     [color |-> <<65535, 256, 0>>, lidar |-> 20]}

RawRows ==
    {[pos |-> p, pavg |-> 0, pexp |-> 0, color |-> t.color, cavg |-> 0,
      cexp |-> 0, lidar |-> t.lidar] : p \in Positions, t \in RawAttributes}

VoxelSizes == (-1)..MaxVoxel

RECURSIVE Factorial(_)
Factorial(n) == IF n <= 1 THEN 1 ELSE n * Factorial(n - 1)

MeanScale == Factorial(MaxPoints)

RECURSIVE Pow(_, _)
Pow(b, e) == IF e = 0 THEN 1 ELSE b * Pow(b, e - 1)

RECURSIVE SumOver(_, _)
SumOver(f, S) ==
    IF S = {} THEN 0
    ELSE LET x == CHOOSE y \in S : TRUE IN f[x] + SumOver(f, S \ {x})

MinOf(S) == CHOOSE x \in S : \A y \in S : x <= y

\* voxel_down_sample: voxel index of a coordinate x for the least coordinate
\* lo of the cloud on that axis, floor((x - (lo - v/2)) / v), with x and lo
\* given over the denominator den
VoxelIndexFromOrigin(x, lo, v, den) == x \div (v * den)

VoxelIndex(x, lo, v, den) == (2 * (x - lo) + v * den) \div (2 * v * den)

\* voxel index triple of every row of the table
\* In a table that was divided by 1000000 before, every coordinate lies
\* within PosMax / 1000000 of the least one, which is less than half of any
\* voxel size used here, so every index is 0.
VoxelKeys(data, v) ==
    LET den == IF data = <<>> THEN 1 ELSE Pow(MeanScale, data[1].pavg)
        lo == [a \in 1..3 |-> MinOf({data[r].pos[a] : r \in DOMAIN data})]
    IN  [r \in DOMAIN data |->
            [a \in 1..3 |->
                IF data[r].pexp = 0
                THEN VoxelIndex(data[r].pos[a], lo[a], v, den)
                ELSE 0]]

\* the accumulated point of one voxel: the mean of its members' positions
\* and colors
MeanOver(f, members) == (SumOver(f, members) * MeanScale) \div Cardinality(members)

Representative(data, members) ==
    LET any == CHOOSE r \in members : TRUE
    IN  [pos |-> [a \in 1..3 |-> MeanOver([r \in members |-> data[r].pos[a]], members)],
         pavg |-> data[any].pavg + 1,
         pexp |-> data[any].pexp,
         color |-> [a \in 1..3 |-> MeanOver([r \in members |-> data[r].color[a]], members)],
         cavg |-> data[any].cavg + 1,
         cexp |-> data[any].cexp]

\* pcd.voxel_down_sample(voxel_size), voxel_size > 0: one accumulated point
\* per occupied voxel, in the iteration order of a hash map, which is not
\* fixed
VoxelDownSample(data, v) ==
    LET keys == VoxelKeys(data, v)
        K == {keys[r] : r \in DOMAIN data}
        n == Cardinality(K)
        orders == {o \in [1..n -> K] : \A a, b \in 1..n : a /= b => o[a] /= o[b]}
    IN  {[m \in 1..n |->
            Representative(data, {r \in DOMAIN data : keys[r] = o[m]})] :
         o \in orders}

\* squared distance of an accumulated point to row r of the table it was
\* accumulated from, in units of 1/MeanScale of the table's unit
RepDist2(data, point, r) ==
    Dist2(point.pos, [a \in 1..3 |-> MeanScale * data[r].pos[a]])

\* tree.query(point, k=1) on cKDTree(pcd_data[:, :3]): a row at the least
\* distance; the tree fixes no choice among rows at equal distance
Farthest(data, point) ==
    {r \in DOMAIN data :
        \A q \in DOMAIN data : RepDist2(data, point, r) >= RepDist2(data, point, q)}

Nearest(data, point) ==
    {r \in DOMAIN data :
        \A q \in DOMAIN data : RepDist2(data, point, r) <= RepDist2(data, point, q)}

\* tree.query(downsampled_points, k=1): one index per queried point
RECURSIVE QueryOriginalsUpTo(_, _, _)
QueryOriginalsUpTo(data, points, m) ==
    IF m = 0 THEN {<<>>}
    ELSE {Append(ix, r) : ix \in QueryOriginalsUpTo(data, points, m - 1),
                          r \in Nearest(data, [pos |-> [a \in 1..3 |-> MeanScale * data[m].pos[a]]])}

RECURSIVE QueryUpTo(_, _, _)
QueryUpTo(data, points, m) ==
    IF m = 0 THEN {<<>>}
    ELSE {Append(ix, r) : ix \in QueryUpTo(data, points, m - 1),
                          r \in Nearest(data, points[m])}

QueryOriginals(data, points) == QueryOriginalsUpTo(data, points, Len(data))

Query(data, points) == QueryUpTo(data, points, Len(points))

\* np.concatenate((downsampled_points / 1000000, downsampled_colors,
\*                 downsampled_lidar[:, np.newaxis]), axis=1)
CombinedOnce(points, colors, lidar) ==
    [m \in DOMAIN points |->
        [pos |-> points[m].pos, pavg |-> points[m].pavg,
         pexp |-> IF points[m].pexp = 0 THEN 1 ELSE points[m].pexp,
         color |-> colors[m].color, cavg |-> colors[m].cavg,
         cexp |-> colors[m].cexp, lidar |-> lidar[m]]]

Combined(points, colors, lidar) ==
    [m \in DOMAIN points |->
        [pos |-> points[m].pos, pavg |-> points[m].pavg,
         pexp |-> points[m].pexp + 1,
         color |-> colors[m].color, cavg |-> colors[m].cavg,
         cexp |-> colors[m].cexp, lidar |-> lidar[m]]]

InitDown ==
    /\ IdleDetect
    /\ IdleMain
    /\ IdleRemap
    /\ IdleTraining
    /\ \E n \in 0..MaxPoints : file \in [1..n -> RawRows]
    /\ voxel_size \in VoxelSizes
    /\ pcd_data = <<>>
    /\ pcd_lidar = <<>>
    /\ downsampled_points = <<>>
    /\ downsampled_colors = <<>>
    /\ indices = <<>>
    /\ downsampled_lidar = <<>>
    /\ written = FALSE
    /\ runs = 0
    /\ pc_down = "load"
    /\ err_down = "none"

\* lines 66-76: np.load, colors divided by 65536, the intensity column
DownLoad ==
    /\ pc_down = "load"
    /\ pcd_data' = [r \in DOMAIN file |-> [file[r] EXCEPT !.cexp = @ + 1]]
    /\ pcd_lidar' = [r \in DOMAIN file |-> file[r].lidar]
    /\ pc_down' = "voxel"
    /\ UNCHANGED <<runs, file, voxel_size, downsampled_points, downsampled_colors,
                   indices, downsampled_lidar, written, err_down>>
    /\ UNCHANGED outside_down

\* line 79: voxel_down_sample raises for voxel_size <= 0
DownVoxelFail ==
    /\ pc_down = "voxel"
    /\ voxel_size <= 0
    /\ pc_down' = "error"
    /\ err_down' = "RuntimeError"
    /\ UNCHANGED <<runs, file, voxel_size, pcd_data, pcd_lidar, downsampled_points,
                   downsampled_colors, indices, downsampled_lidar, written>>
    /\ UNCHANGED outside_down

\* lines 79-83: the downsampled points and colors
DownVoxel ==
    /\ pc_down = "voxel"
    /\ voxel_size > 0
    /\ \E acc \in VoxelDownSample(pcd_data, voxel_size) :
          /\ downsampled_points' =
                [m \in DOMAIN acc |->
                    [pos |-> acc[m].pos, pavg |-> acc[m].pavg, pexp |-> acc[m].pexp]]
          /\ downsampled_colors' =
                [m \in DOMAIN acc |->
                    [color |-> acc[m].color, cavg |-> acc[m].cavg, cexp |-> acc[m].cexp]]
    /\ pc_down' = "query"
    /\ UNCHANGED <<runs, file, voxel_size, pcd_data, pcd_lidar, indices,
                   downsampled_lidar, written, err_down>>
    /\ UNCHANGED outside_down

\* line 86: whether cKDTree accepts a table of zero rows depends on the
\* installed library; when it does not, the constructor raises
DownQueryFail ==
    /\ pc_down = "query"
    /\ Len(pcd_data) = 0
    /\ pc_down' = "error"
    /\ err_down' = "ValueError"
    /\ UNCHANGED <<runs, file, voxel_size, pcd_data, pcd_lidar, downsampled_points,
                   downsampled_colors, indices, downsampled_lidar, written>>
    /\ UNCHANGED outside_down

\* lines 86-88: nearest original row of every downsampled point
DownQuery ==
    /\ pc_down = "query"
    /\ \E ix \in Query(pcd_data, downsampled_points) :
          /\ indices' = ix
          /\ downsampled_lidar' = [m \in DOMAIN ix |-> pcd_lidar[ix[m]]]
    /\ pc_down' = "save"
    /\ UNCHANGED <<runs, file, voxel_size, pcd_data, pcd_lidar, downsampled_points,
                   downsampled_colors, written, err_down>>
    /\ UNCHANGED outside_down

\* lines 91-100: concatenate the columns and overwrite the file;
\* np.concatenate raises when the columns differ in length
DownSave ==
    /\ pc_down = "save"
    /\ IF Len(downsampled_points) = Len(downsampled_colors)
          /\ Len(downsampled_points) = Len(downsampled_lidar)
       THEN /\ file' = Combined(downsampled_points, downsampled_colors,
                                downsampled_lidar)
            /\ written' = TRUE
            /\ runs' = runs + 1
            /\ pc_down' = "done"
            /\ err_down' = err_down
       ELSE /\ pc_down' = "error"
            /\ err_down' = "ValueError"
            /\ UNCHANGED <<file, written, runs>>
    /\ UNCHANGED <<voxel_size, pcd_data, pcd_lidar, downsampled_points,
                   downsampled_colors, indices, downsampled_lidar>>
    /\ UNCHANGED outside_down

NextDown ==
    \/ DownLoad
    \/ DownVoxelFail
    \/ DownVoxel
    \/ DownQueryFail
    \/ DownQuery
    \/ DownSave

SpecDown == InitDown /\ [][NextDown]_vars

\* the stage is run on the folder again: lines 63-65 reach the same file,
\* which nothing marks as already downsampled
DownAgain ==
    /\ pc_down = "done"
    /\ runs < MaxRuns
    /\ pc_down' = "load"
    /\ pcd_data' = <<>>
    /\ pcd_lidar' = <<>>
    /\ downsampled_points' = <<>>
    /\ downsampled_colors' = <<>>
    /\ indices' = <<>>
    /\ downsampled_lidar' = <<>>
    /\ UNCHANGED <<file, voxel_size, written, runs, err_down>>
    /\ UNCHANGED outside_down

\* repeated runs, on a file of fewer than MaxPoints rows
InitRerun == InitDown /\ Len(file) < MaxPoints

NextRerun == NextDown \/ DownAgain

SpecRerun == InitRerun /\ [][NextRerun]_vars

\* ----------------------------------------------------------------- main
\* main runs the three batch stages over the files of a folder.  A table is
\* modelled here by its column layout: a sequence of columns
\*   [name, colordiv, posdiv],
\* the source attribute the column came from, and how often it has been
\* divided by 65536 and by 1000000.  The values of one 7-column file are the
\* subject of SpecDown.  main is run with a voxel size > 0 on non-empty
\* clouds.  Files are named 1..n; name.laz becomes name.npy.
Attributes == {"red", "green", "blue", "intensity"}

\* the files a folder can hold: a name that does not end in .laz, a .laz file
\* that laspy cannot read, and a .laz file exposing a set of attributes
Sources ==
    {[laz |-> FALSE, readable |-> FALSE, attrs |-> {}],
     [laz |-> TRUE, readable |-> FALSE, attrs |-> {}]}
        \cup {[laz |-> TRUE, readable |-> TRUE, attrs |-> A] : A \in SUBSET Attributes}

Column(name) == [name |-> name, colordiv |-> 0, posdiv |-> 0]

\* np.all([hasattr(las, attr) for attr in ["red", "green", "blue"]])
HasAnyColor(las) == \E attr \in {"red", "green", "blue"} : attr \in las.attrs

HasColors(las) == \A attr \in {"red", "green", "blue"} : attr \in las.attrs

\* lines 34-43: the table built from a .laz file
LoaderTable(las) ==
    <<Column("x"), Column("y"), Column("z")>>
        \o (IF HasColors(las)
            THEN <<Column("red"), Column("green"), Column("blue")>> ELSE <<>>)
        \o (IF "intensity" \in las.attrs THEN <<Column("intensity")>> ELSE <<>>)

\* line 70: pcd_data[:, 3:6] = pcd_data[:, 3:6] / 65536.; the slice holds the
\* columns 3, 4 and 5 (0-based) that the table has
NormalizeThreeColors(table) ==
    [c \in DOMAIN table |->
        IF c \in 4..6 /\ Len(table) >= 6
        THEN [table[c] EXCEPT !.colordiv = @ + 1] ELSE table[c]]

NormalizeColors(table) ==
    [c \in DOMAIN table |->
        IF c \in 4..6 THEN [table[c] EXCEPT !.colordiv = @ + 1] ELSE table[c]]

\* line 71: pcd_data[:, 6] exists
HasLidarColumn(table) == Len(table) >= 7

\* lines 73-93: positions / 1000000, colors, intensity of the downsampled rows
DownsampledTable(table) ==
    [c \in 1..7 |->
        IF c \in 1..3 THEN [table[c] EXCEPT !.posdiv = @ + 1] ELSE table[c]]

\* lines 128-137: the normals estimated from point_cloud_np[:, :3], remapped
NormalsTable(table) ==
    [c \in 1..3 |-> [name |-> "normal", of |-> table[c].name]]

\* np.save(path, table)
Put(folder, name, table) ==
    [n \in DOMAIN folder \cup {name} |-> IF n = name THEN table ELSE folder[n]]

\* the for loop over os.listdir is exhausted
LoopLeftEarly == filename = NoFile

LoopDone == listing = {} /\ filename = NoFile

InitMain ==
    /\ IdleDetect
    /\ IdleDown
    /\ IdleRemap
    /\ IdleTraining
    /\ \E n \in 1..MaxFiles : input_folder \in [1..n -> Sources]
    /\ output_folder = NoFiles
    /\ output_normal = NoFiles
    /\ stage = "start"
    /\ listing = {}
    /\ filename = NoFile
    /\ loaded = <<>>
    /\ stages_run = <<>>
    /\ err_main = "none"

\* line 280 and line 27: main calls process_laz_files, which lists input_folder
MainCallLaz ==
    /\ stage = "start"
    /\ stage' = "process_laz_files"
    /\ stages_run' = Append(stages_run, "process_laz_files")
    /\ listing' = DOMAIN input_folder
    /\ UNCHANGED <<input_folder, output_folder, output_normal, filename, loaded,
                   err_main>>
    /\ UNCHANGED outside_main

\* lines 27-28: a name that does not end in .laz is passed over
LazSkip ==
    /\ stage = "process_laz_files"
    /\ err_main = "none"
    /\ filename = NoFile
    /\ \E name \in listing :
          /\ ~input_folder[name].laz
          /\ listing' = listing \ {name}
    /\ UNCHANGED <<input_folder, output_folder, output_normal, stage, filename,
                   loaded, stages_run, err_main>>
    /\ UNCHANGED outside_main

\* lines 27-33: the next .laz file is read; laspy.read raises on a file it
\* cannot read, and nothing catches the exception
LazRead ==
    /\ stage = "process_laz_files"
    /\ err_main = "none"
    /\ filename = NoFile
    /\ \E name \in listing :
          /\ input_folder[name].laz
          /\ listing' = listing \ {name}
          /\ filename' = name
          /\ IF input_folder[name].readable
             THEN loaded' = input_folder[name] /\ err_main' = err_main
             ELSE loaded' = loaded /\ err_main' = "LaspyException"
    /\ UNCHANGED <<input_folder, output_folder, output_normal, stage,
                   stages_run>>
    /\ UNCHANGED outside_main

\* lines 34-49: the table is built and saved as name.npy
LazSave ==
    /\ stage = "process_laz_files"
    /\ err_main = "none"
    /\ filename /= NoFile
    /\ output_folder' = Put(output_folder, filename, LoaderTable(loaded))
    /\ filename' = NoFile
    /\ loaded' = <<>>
    /\ UNCHANGED <<input_folder, output_normal, stage, listing, stages_run,
                   err_main>>
    /\ UNCHANGED outside_main

\* line 281 and line 63: process_laz_files has returned; main calls
\* process_point_clouds on output_folder, without looking at the tables
MainCallPc ==
    /\ stage = "process_laz_files"
    /\ err_main = "none"
    /\ LoopDone
    /\ stage' = "process_point_clouds"
    /\ stages_run' = Append(stages_run, "process_point_clouds")
    /\ listing' = DOMAIN output_folder
    /\ UNCHANGED <<input_folder, output_folder, output_normal, filename, loaded,
                   err_main>>
    /\ UNCHANGED outside_main

\* lines 63-70: the next table is loaded and its color slice divided
PcLoad ==
    /\ stage = "process_point_clouds"
    /\ err_main = "none"
    /\ filename = NoFile
    /\ \E name \in listing :
          /\ listing' = listing \ {name}
          /\ filename' = name
          /\ loaded' = NormalizeColors(output_folder[name])
    /\ UNCHANGED <<input_folder, output_folder, output_normal, stage,
                   stages_run, err_main>>
    /\ UNCHANGED outside_main

\* lines 71-100: pcd_data[:, 6] raises IndexError on a table of fewer than 7
\* columns; otherwise the downsampled table overwrites the file
PcSave ==
    /\ stage = "process_point_clouds"
    /\ err_main = "none"
    /\ filename /= NoFile
    /\ IF HasLidarColumn(loaded)
       THEN /\ output_folder' = Put(output_folder, filename, DownsampledTable(loaded))
            /\ filename' = NoFile
            /\ loaded' = <<>>
            /\ err_main' = err_main
       ELSE /\ err_main' = "IndexError"
            /\ UNCHANGED <<output_folder, filename, loaded>>
    /\ UNCHANGED <<input_folder, output_normal, stage, listing, stages_run>>
    /\ UNCHANGED outside_main

\* line 282 and line 119: process_point_clouds has returned; main calls
\* process_and_normalize_normals
MainCallNormals ==
    /\ stage = "process_point_clouds"
    /\ err_main = "none"
    /\ LoopDone
    /\ stage' = "process_and_normalize_normals"
    /\ stages_run' = Append(stages_run, "process_and_normalize_normals")
    /\ listing' = DOMAIN output_folder
    /\ UNCHANGED <<input_folder, output_folder, output_normal, filename, loaded,
                   err_main>>
    /\ UNCHANGED outside_main

\* lines 119-128: the next table is loaded, its first 3 columns are the points
NormalsLoad ==
    /\ stage = "process_and_normalize_normals"
    /\ err_main = "none"
    /\ filename = NoFile
    /\ \E name \in listing :
          /\ listing' = listing \ {name}
          /\ filename' = name
          /\ loaded' = SubSeq(output_folder[name], 1, 3)
    /\ UNCHANGED <<input_folder, output_folder, output_normal, stage,
                   stages_run, err_main>>
    /\ UNCHANGED outside_main

\* lines 131-142: the remapped normals are saved under the same name
NormalsSave ==
    /\ stage = "process_and_normalize_normals"
    /\ err_main = "none"
    /\ filename /= NoFile
    /\ output_normal' = Put(output_normal, filename, NormalsTable(loaded))
    /\ filename' = NoFile
    /\ loaded' = <<>>
    /\ UNCHANGED <<input_folder, output_folder, stage, listing, stages_run,
                   err_main>>
    /\ UNCHANGED outside_main

\* line 282: process_and_normalize_normals returns, and main with it
MainReturn ==
    /\ stage = "process_and_normalize_normals"
    /\ err_main = "none"
    /\ LoopDone
    /\ stage' = "done"
    /\ UNCHANGED <<input_folder, output_folder, output_normal, listing,
                   filename, loaded, stages_run, err_main>>
    /\ UNCHANGED outside_main

NextMain ==
    \/ MainCallLaz
    \/ LazSkip
    \/ LazRead
    \/ LazSave
    \/ MainCallPc
    \/ PcLoad
    \/ PcSave
    \/ MainCallNormals
    \/ NormalsLoad
    \/ NormalsSave
    \/ MainReturn

SpecMain == InitMain /\ [][NextMain]_vars

\* ---------------------------------- process_and_normalize_normals, line 137
\* normals_np is an array of binary floating-point numbers, and line 137
\* rounds after each of its three operations.  The model keeps the rounding
\* and shortens the significand to MantBits bits: 8 bits are the fewest that
\* hold 127.5 and 255 exactly.  A number is an integer count of grid units of
\* 2^-GridBits; the grid is fine enough that every number that occurs is a
\* whole count, so no result is rounded because of the grid.
GridBits == 2 * MantBits + 2

\* the number 1 in grid units
One == Pow(2, GridBits)

RECURSIVE BitLength(_)
BitLength(n) == IF n = 0 THEN 0 ELSE 1 + BitLength(n \div 2)

\* the spacing of the floating-point numbers at the magnitude n
Ulp(n) ==
    IF BitLength(n) > MantBits THEN Pow(2, BitLength(n) - MantBits) ELSE 1

\* the floating-point number nearest to n / d, ties to even, for n >= 0
RoundMagnitude(n, d) ==
    LET unit == Ulp(n \div d)
        q == n \div (d * unit)
        r == n - q * (d * unit)
    IN  (IF 2 * r > d * unit \/ (2 * r = d * unit /\ q % 2 = 1)
         THEN q + 1 ELSE q) * unit

Round(n, d) ==
    IF n >= 0 THEN RoundMagnitude(n, d) ELSE 0 - RoundMagnitude(0 - n, d)

\* a + b, a * k and a / k of floating-point numbers, k a small integer
Plus(a, b) == Round(a + b, 1)

Times(a, k) == Round(a * k, 1)

Over(a, k) == Round(a, k)

\* line 137: (normals_np + 1) / 2 * 255
RemapWithoutShift(x) == Times(Over(x, 2), 255)

Remap(x) == Times(Over(Plus(x, One), 2), 255)

\* the floating-point numbers of [0, 1]
Magnitudes ==
    (0..(Pow(2, MantBits) - 1))
        \cup {m * Pow(2, k) : m \in Pow(2, MantBits - 1)..(Pow(2, MantBits) - 1),
                              k \in 1..(GridBits - MantBits)}
        \cup {One}

\* the values a component of a unit normal can have
Components == Magnitudes \cup {0 - n : n \in Magnitudes}

InitRemap ==
    /\ IdleDetect
    /\ IdleDown
    /\ IdleMain
    /\ IdleTraining
    /\ component \in Components
    /\ normalized_normals = 0
    /\ pc_remap = "estimated"

\* lines 137-141: the component is remapped and saved
RemapNormalize ==
    /\ pc_remap = "estimated"
    /\ normalized_normals' = Remap(component)
    /\ pc_remap' = "saved"
    /\ UNCHANGED component
    /\ UNCHANGED outside_remap

NextRemap == RemapNormalize

SpecRemap == InitRemap /\ [][NextRemap]_vars

\* ---------------------------------------------------------- train_model
\* The early stopping of train_model (src/train.py).  A validation loss is a
\* float: a number, inf or nan, as a record [kind, val].
NotANumber == [kind |-> "nan", val |-> 0]

Number(n) == [kind |-> "num", val |-> n]

Losses == {Number(n) : n \in 0..MaxLoss} \cup {Infinity, NotANumber}

\* loss < best - delta on floats: nan compares false, inf - delta is inf
LessBy(loss, best, delta) ==
    /\ loss.kind = "num"
    /\ \/ best.kind = "inf"
       \/ best.kind = "num" /\ loss.val < best.val - delta

\* line 363: epoch_val_loss < best_val_loss - early_stopping_delta and epoch > 1
ImprovedInAnyEpoch(loss, best, delta, e) == LessBy(loss, best, delta)

Improved(loss, best, delta, e) == LessBy(loss, best, delta) /\ e > 1

\* lines 147-148 and 168-169: the call and the state before the first epoch
InitTrain ==
    /\ IdlePreprocessing
    /\ IdleRun
    /\ epochs \in 0..MaxEpochs
    /\ early_stopping_patience \in 0..MaxPatience
    /\ early_stopping_delta \in 0..MaxDelta
    /\ epoch = -1
    /\ epoch_val_loss = Infinity
    /\ best_val_loss = Infinity
    /\ epochs_without_improvement = 0
    /\ pc_train = "loop"

\* lines 175-371: one pass of the loop body, which ends with the early
\* stopping test and its break
TrainEpoch ==
    /\ pc_train = "loop"
    /\ epoch + 1 < epochs
    /\ epoch' = epoch + 1
    /\ epoch_val_loss' \in Losses
    /\ IF Improved(epoch_val_loss', best_val_loss, early_stopping_delta, epoch')
       THEN /\ best_val_loss' = epoch_val_loss'
            /\ epochs_without_improvement' = 0
       ELSE /\ best_val_loss' = best_val_loss
            /\ epochs_without_improvement' = epochs_without_improvement + 1
    /\ pc_train' = IF epochs_without_improvement' >= early_stopping_patience
                   THEN "stopped" ELSE "loop"
    /\ UNCHANGED <<epochs, early_stopping_patience, early_stopping_delta>>
    /\ UNCHANGED outside_train

\* line 175: range(epochs) is exhausted
TrainLoopEnd ==
    /\ pc_train = "loop"
    /\ epoch + 1 >= epochs
    /\ pc_train' = "finished"
    /\ UNCHANGED <<epochs, early_stopping_patience, early_stopping_delta, epoch,
                   epoch_val_loss, best_val_loss, epochs_without_improvement>>
    /\ UNCHANGED outside_train

NextTrain == TrainEpoch \/ TrainLoopEnd

SpecTrain == InitTrain /\ [][NextTrain]_vars

\* ----------------------------------------------------------- main_train
\* The run naming of main_train (src/train.py).  A save path and a run name
\* are modelled by the folder their f-string names.
Flags ==
    [include_loss_recon : BOOLEAN, include_loss_lid : BOOLEAN,
     include_loss_alb_smoothness : BOOLEAN, include_loss_shading : BOOLEAN,
     include_chroma_weights : BOOLEAN, wandb : BOOLEAN]

\* lines 448-470: the six if statements, by the folder each one names
Chain == <<"albedo_only", "shading_only", "albedo_chroma", "lid_only",
           "recon_only", "all_losses">>

\* lines 448, 452, 456, 460, 464, 468: the condition of the k-th if
Condition(k, o) ==
    CASE k = 1 -> o.include_loss_alb_smoothness /\ ~o.include_loss_shading
      [] k = 2 -> ~o.include_loss_alb_smoothness /\ o.include_loss_shading
      [] k = 3 -> o.include_loss_alb_smoothness /\ o.include_chroma_weights
      [] k = 4 -> /\ o.include_loss_lid
                  /\ ~o.include_loss_alb_smoothness
                  /\ ~o.include_loss_shading
      [] k = 5 -> /\ ~o.include_loss_alb_smoothness
                  /\ ~o.include_loss_shading
                  /\ ~o.include_loss_lid
                  /\ o.include_loss_recon
      [] k = 6 -> /\ o.include_loss_alb_smoothness
                  /\ o.include_loss_shading
                  /\ o.include_loss_lid

\* line 440: the flags are parsed; wandb_name is not yet bound
InitRun ==
    /\ IdlePreprocessing
    /\ IdleTrain
    /\ opt \in Flags
    /\ save_model_path = "default"
    /\ wandb_name = Unbound
    /\ pc_run = Chain[1]
    /\ err_run = "none"

\* the k-th if statement: when its condition holds, opt.save_model_path and
\* wandb_name are assigned
RunIf(k) ==
    /\ pc_run = Chain[k]
    /\ IF Condition(k, opt)
       THEN save_model_path' = Chain[k] /\ wandb_name' = Chain[k]
       ELSE UNCHANGED <<save_model_path, wandb_name>>
    /\ pc_run' = IF k < Len(Chain) THEN Chain[k + 1] ELSE "wandb"
    /\ UNCHANGED <<opt, err_run>>
    /\ UNCHANGED outside_run

\* lines 472-483: wandb.init(name=wandb_name) when opt.wandb; reading a
\* local that was never assigned raises UnboundLocalError
RunWandbInit ==
    /\ pc_run = "wandb"
    /\ IF opt.wandb /\ wandb_name = Unbound
       THEN pc_run' = "error" /\ err_run' = "UnboundLocalError"
       ELSE pc_run' = "train" /\ err_run' = err_run
    /\ UNCHANGED <<opt, save_model_path, wandb_name>>
    /\ UNCHANGED outside_run

NextRun == (\E k \in 1..Len(Chain) : RunIf(k)) \/ RunWandbInit

SpecRun == InitRun /\ [][NextRun]_vars

\* ------------------------------------------------------------ properties
NumPoints == Len(point_cloud_np)

MasksBuilt == pc_detect \in {"masks", "return", "error"}

\* the points within the radius of point p other than p itself
TrueNeighbors(p) ==
    {j \in 1..NumPoints :
        j /= p /\ Dist2(point_cloud_np[j], point_cloud_np[p]) < RadiusSq}

\* C1: a point marked as an edge in mask t is marked in every mask t' > t,
\* also when its mean cosine similarity is NotANumber.
Thm_C1_Monotone ==
    MasksBuilt =>
        \A p \in 1..NumPoints : \A t \in Thresholds :
            binary_mask[t][p] = 1 =>
                \A u \in Thresholds : t < u => binary_mask[u][p] = 1

Wit_C1_Monotone ==
    /\ MasksBuilt
    /\ \E p \in 1..NumPoints : mean_cos_similarity[p].nan
    /\ \E p \in 1..NumPoints :
          /\ binary_mask[0][p] = 0
          /\ binary_mask[1][p] = 1
          /\ binary_mask[9][p] = 1

\* C2 (as claimed): detect_edge_points never ends in an error once the masks
\* have been computed and saved; it returns them.
Claim_C2_ReturnsMasks == pc_detect /= "error"

\* C3 (as claimed): the masks are those of the cosine similarities of the
\* supplied normal table, de-normalized back to [-1, 1].
SuppliedNormals ==
    [p \in 1..NumPoints |->
        <<Denormalize2(normals_np[p][1]), Denormalize2(normals_np[p][2]),
          Denormalize2(normals_np[p][3])>>]

Claim_C3_UsesSuppliedNormals ==
    MasksBuilt =>
        \A p \in 1..NumPoints :
            \A sum \in {SumDots(SuppliedNormals, local_idx[p], p)} :
            \A len \in {Cardinality(local_idx[p])} :
            \A t \in Thresholds :
                binary_mask[t][p] = 1 <=> (len > 0 /\ 10 * sum < t * len)

\* C4: every mask has one 0/1 entry per point, and entry p of mask t is 1
\* exactly when the mean cosine similarity of point p is strictly below t.
Thm_C4_MaskIffBelow ==
    MasksBuilt =>
        /\ DOMAIN binary_mask = Thresholds
        /\ \A t \in Thresholds : DOMAIN binary_mask[t] = 1..NumPoints
        /\ \A p \in 1..NumPoints :
              \A sum \in {SumDots(normals, local_idx[p], p)} :
              \A len \in {Cardinality(local_idx[p])} :
              \A t \in Thresholds :
                  /\ binary_mask[t][p] \in {0, 1}
                  /\ binary_mask[t][p] = 1 <=> (len > 0 /\ 10 * sum < t * len)

\* a mean that sits exactly on a threshold, one below all and one above all
Wit_C4_MaskIffBelow ==
    /\ MasksBuilt
    /\ \E p \in 1..NumPoints :
          /\ ~mean_cos_similarity[p].nan
          /\ Cardinality(local_idx[p]) = 2
          /\ mean_cos_similarity[p].num = 0
          /\ binary_mask[0][p] = 0
          /\ binary_mask[1][p] = 1
    /\ \E p \in 1..NumPoints : binary_mask[0][p] = 1
    /\ \E p \in 1..NumPoints :
          ~mean_cos_similarity[p].nan /\ binary_mask[9][p] = 0

\* C5 (as claimed): the neighbor set used for point p is exactly the set of
\* the other points within the radius.
Claim_C5_NeighborsExcludeSelf ==
    \A p \in 1..Len(local_idx) : local_idx[p] = TrueNeighbors(p)

\* C6: a point with no other point within the radius is 0 in all masks, and
\* the loop goes on to the remaining points.
Thm_C6_EmptyNeighborhood ==
    /\ \A p \in 1..Len(local_idx) :
          TrueNeighbors(p) = {} =>
              /\ \A t \in Thresholds : p \notin SeqElems(edge_indices[t])
              /\ pc_detect = "error" => i = NumPoints
    /\ MasksBuilt =>
          /\ i = NumPoints
          /\ \A p \in 1..NumPoints :
                TrueNeighbors(p) = {} =>
                    \A t \in Thresholds : binary_mask[t][p] = 0

\* an isolated first point, and a later point that is marked as an edge
Wit_C6_EmptyNeighborhood ==
    /\ MasksBuilt
    /\ NumPoints >= 2
    /\ TrueNeighbors(1) = {}
    /\ mean_cos_similarity[1].nan
    /\ \E j \in 2..NumPoints : binary_mask[9][j] = 1

\* C7 (as claimed): a point whose normal is the zero vector is 0 in every
\* mask.
Claim_C7_ZeroNormalNotEdge ==
    MasksBuilt =>
        \A p \in 1..NumPoints :
            normals[p] = ZeroNormal =>
                \A t \in Thresholds : binary_mask[t][p] = 0

\* number of rows of the table that process_point_clouds loaded
NumRows == Len(pcd_data)

DownStarted == pc_down \notin {"idle", "load"}

\* C8: for a non-empty cloud and a voxel size > 0 the stage writes a table of
\* M rows, 1 <= M <= N, whose position, color and intensity columns all have
\* length M.
Thm_C8_RowCount ==
    (DownStarted /\ NumRows >= 1 /\ voxel_size > 0) =>
        /\ pc_down /= "error"
        /\ pc_down \in {"query", "save", "done"} =>
              /\ 1 <= Len(downsampled_points)
              /\ Len(downsampled_points) <= NumRows
              /\ Len(downsampled_colors) = Len(downsampled_points)
        /\ pc_down \in {"save", "done"} =>
              Len(downsampled_lidar) = Len(downsampled_points)
        /\ pc_down = "done" =>
              /\ written
              /\ Len(file) = Len(downsampled_points)
              /\ \A m \in 1..Len(file) :
                    DOMAIN file[m] =
                        {"pos", "pavg", "pexp", "color", "cavg", "cexp", "lidar"}

\* a cloud of at least 3 points reduced to fewer rows, but more than one
Wit_C8_RowCount ==
    /\ pc_down = "done"
    /\ NumRows >= 3
    /\ Len(file) > 1
    /\ Len(file) < NumRows

\* C9 (as claimed): a table of zero rows fails with EmptyCloudError and a
\* voxel size <= 0 fails with InvalidVoxelSizeError, in both cases before
\* the file is written.
Claim_C9_RejectsMalformed ==
    pc_down \in {"done", "error"} =>
        /\ NumRows = 0 => (err_down = "EmptyCloudError" /\ ~written)
        /\ (NumRows > 0 /\ voxel_size <= 0) =>
              (err_down = "InvalidVoxelSizeError" /\ ~written)

\* the original rows at the least distance from downsampled point m
ClosestRows(m) ==
    LET d == [r \in 1..NumRows |->
                (downsampled_points[m].pos[1] - MeanScale * pcd_data[r].pos[1])
                    * (downsampled_points[m].pos[1] - MeanScale * pcd_data[r].pos[1])
                + (downsampled_points[m].pos[2] - MeanScale * pcd_data[r].pos[2])
                    * (downsampled_points[m].pos[2] - MeanScale * pcd_data[r].pos[2])
                + (downsampled_points[m].pos[3] - MeanScale * pcd_data[r].pos[3])
                    * (downsampled_points[m].pos[3] - MeanScale * pcd_data[r].pos[3])]
    IN  {r \in 1..NumRows : \A q \in 1..NumRows : d[r] <= d[q]}

\* C10 (as claimed): the intensity of every downsampled point is that of the
\* nearest original point, the one of smallest index among equidistant ones.
Claim_C10_SmallestIndexOnTie ==
    pc_down \in {"save", "done"} =>
        \A m \in 1..Len(downsampled_lidar) :
            downsampled_lidar[m] = pcd_lidar[MinOf(ClosestRows(m))]

\* C10 (amended): the intensity of every downsampled point, in the table
\* written too, is that of an original point at the least distance from it;
\* among equidistant original points any one may be the source.
Thm_C10_NearestIntensity ==
    /\ pc_down \in {"save", "done"} =>
          \A m \in 1..Len(downsampled_points) :
              \E r \in ClosestRows(m) :
                  /\ downsampled_lidar[m] = pcd_data[r].lidar
                  /\ indices[m] = r
    /\ pc_down = "done" =>
          \A m \in 1..Len(file) :
              \E r \in ClosestRows(m) : file[m].lidar = pcd_data[r].lidar

\* a tie between original points of different intensity, resolved to the
\* larger index, next to a downsampled point with a single nearest original
Wit_C10_NearestIntensity ==
    /\ pc_down = "done"
    /\ \E m \in 1..Len(file) :
          /\ Cardinality(ClosestRows(m)) >= 2
          /\ file[m].lidar /= pcd_lidar[MinOf(ClosestRows(m))]
    /\ \E m \in 1..Len(file) :
          /\ Cardinality(ClosestRows(m)) = 1
          /\ NumRows > 1

\* the groups of rows of the loaded table that share a cell, for the cell of
\* every row
GroupsBy(cell) ==
    {{s \in 1..NumRows : cell[s] = cell[r]} : r \in 1..NumRows}

\* the arithmetic mean of the positions, and of the colors, of the rows of G,
\* in units of 1/MeanScale
MeanPosOf(G) ==
    [a \in 1..3 |->
        (SumOver([r \in G |-> pcd_data[r].pos[a]], G) * MeanScale) \div Cardinality(G)]

MeanColorOf(G) ==
    [a \in 1..3 |->
        (SumOver([r \in G |-> pcd_data[r].color[a]], G) * MeanScale) \div Cardinality(G)]

\* the downsampled table has one row per group, holding the group's means
OneMeanPerGroup(groups) ==
    /\ Len(downsampled_points) = Cardinality(groups)
    /\ \A G \in groups :
          \E m \in 1..Len(downsampled_points) :
              /\ downsampled_points[m].pos = MeanPosOf(G)
              /\ downsampled_colors[m].color = MeanColorOf(G)

Downsampled == pc_down \in {"query", "save", "done"}

\* floor(position / v) of every row of the table a loader wrote
FloorCells ==
    [r \in 1..NumRows |-> [a \in 1..3 |-> pcd_data[r].pos[a] \div voxel_size]]

\* floor((position - (least position - v/2)) / v) of every row
AnchoredCells ==
    LET lo == [a \in 1..3 |-> MinOf({pcd_data[r].pos[a] : r \in 1..NumRows})]
    IN  [r \in 1..NumRows |->
            [a \in 1..3 |->
                (2 * (pcd_data[r].pos[a] - lo[a]) + voxel_size) \div (2 * voxel_size)]]

\* C11 (as claimed): two points share a representative exactly when their
\* floor(position / v) is equal componentwise, and every representative holds
\* the mean position and the mean color of its members.
Claim_C11_FloorGrouping ==
    (Downsampled /\ NumRows >= 1) =>
        \A cell \in {FloorCells} : OneMeanPerGroup(GroupsBy(cell))

\* C11 (amended): two points share a representative exactly when their
\* floor((position - (m - v/2)) / v) is equal componentwise, m being the
\* least position of the cloud on each axis, and every representative holds
\* the mean position and the mean color of its members.
Thm_C11_AnchoredGrouping ==
    (Downsampled /\ NumRows >= 1) =>
        \A cell \in {AnchoredCells} : OneMeanPerGroup(GroupsBy(cell))

\* two points of equal floor(position / v) in different voxels, next to a
\* voxel of two points of different color
Wit_C11_AnchoredGrouping ==
    /\ pc_down = "done"
    /\ NumRows >= 3
    /\ \E r, s \in 1..NumRows :
          /\ FloorCells[r] = FloorCells[s]
          /\ AnchoredCells[r] /= AnchoredCells[s]
    /\ \E r, s \in 1..NumRows :
          /\ r /= s
          /\ AnchoredCells[r] = AnchoredCells[s]
          /\ pcd_data[r].pos /= pcd_data[s].pos
          /\ pcd_data[r].color /= pcd_data[s].color


\* the names of the columns of a table, in order
ColumnNames(table) == [c \in DOMAIN table |-> table[c].name]

\* place of an attribute in the order position, color, intensity
Rank(name) ==
    CASE name = "x" -> 1
      [] name = "y" -> 2
      [] name = "z" -> 3
      [] name = "red" -> 4
      [] name = "green" -> 5
      [] name = "blue" -> 6
      [] name = "intensity" -> 7

\* C12: a table written by process_laz_files starts with the 3 position
\* columns, has the 3 color columns iff the source exposes red, green and
\* blue, has the intensity column iff the source exposes intensity, and keeps
\* the order position, color, intensity; its width is 3, 4, 6 or 7.
Thm_C12_LoaderSchema ==
    stage = "process_laz_files" =>
        \A name \in DOMAIN output_folder :
            \A cols \in {ColumnNames(output_folder[name])} :
            \A exposed \in {input_folder[name].attrs} :
                /\ Len(cols) \in {3, 4, 6, 7}
                /\ SubSeq(cols, 1, 3) = <<"x", "y", "z">>
                /\ \A color \in {"red", "green", "blue"} :
                      color \in SeqElems(cols)
                          <=> {"red", "green", "blue"} \subseteq exposed
                /\ "intensity" \in SeqElems(cols) <=> "intensity" \in exposed
                /\ \A c, d \in 1..Len(cols) : c < d => Rank(cols[c]) < Rank(cols[d])

\* a source with two of the three colors and intensity, written with 4
\* columns, next to a source with everything, written with 7
Wit_C12_LoaderSchema ==
    /\ stage = "process_laz_files"
    /\ \E name \in DOMAIN output_folder :
          /\ input_folder[name].attrs = {"red", "green", "intensity"}
          /\ Len(output_folder[name]) = 4
    /\ \E name \in DOMAIN output_folder : Len(output_folder[name]) = 7

\* main has ended, by returning or by an exception
MainEnded == stage = "done" \/ err_main /= "none"

\* the table of that name was overwritten by process_point_clouds
IsDownsampled(name) ==
    name \in DOMAIN output_folder /\ output_folder[name][1].posdiv >= 1

\* C13 (as claimed): a file that fails does not keep the other files of the
\* batch from being processed: when main has ended, every readable .laz file
\* has its table, and every table of 7 columns has been downsampled and has
\* its normals.
Claim_C13_FailureIsolation ==
    MainEnded =>
        \A name \in DOMAIN input_folder :
            (input_folder[name].laz /\ input_folder[name].readable) =>
                /\ name \in DOMAIN output_folder
                /\ input_folder[name].attrs = Attributes =>
                      (IsDownsampled(name) /\ name \in DOMAIN output_normal)

\* the names a stage has iterated past
Passed(folder) == (DOMAIN folder \ listing) \ {filename}

\* a stage is entered only when the one before has written its output for
\* every file
StartsAfterPrevious ==
    /\ stage \in {"process_point_clouds", "process_and_normalize_normals", "done"} =>
          \A name \in DOMAIN input_folder :
              input_folder[name].laz => name \in DOMAIN output_folder
    /\ stage \in {"process_and_normalize_normals", "done"} =>
          \A name \in DOMAIN output_folder : IsDownsampled(name)
    /\ stage = "done" =>
          \A name \in DOMAIN output_folder : name \in DOMAIN output_normal

\* within a stage every file iterated past has been saved before the file in
\* hand was started, and the file in hand is not saved yet
OneFileAtATime ==
    /\ stage = "process_laz_files" =>
          /\ \A name \in Passed(input_folder) :
                input_folder[name].laz => name \in DOMAIN output_folder
          /\ filename /= NoFile => filename \notin DOMAIN output_folder
    /\ stage = "process_point_clouds" =>
          /\ \A name \in Passed(output_folder) : IsDownsampled(name)
          /\ filename /= NoFile => ~IsDownsampled(filename)
    /\ stage = "process_and_normalize_normals" =>
          /\ \A name \in Passed(output_folder) : name \in DOMAIN output_normal
          /\ filename /= NoFile => filename \notin DOMAIN output_normal

\* C14 (as claimed): main runs the loader, the downsampler, the normal
\* estimator and then the edge detector; a stage starts only after the stage
\* before has written its output for every file, and a stage handles one
\* file to completion before the next.
Claim_C14_FourStagesInOrder ==
    /\ stage = "done" =>
          stages_run = <<"process_laz_files", "process_point_clouds",
                         "process_and_normalize_normals", "detect_edge_points">>
    /\ StartsAfterPrevious
    /\ OneFileAtATime

\* C14 (amended): main runs the loader, the downsampler and the normal
\* estimator in that order and never the edge detector; a stage starts only
\* after the stage before has written its output for every file, and a stage
\* handles one file to completion before the next.
Thm_C14_ThreeStagesInOrder ==
    /\ \E n \in 0..3 :
          stages_run = SubSeq(<<"process_laz_files", "process_point_clouds",
                                "process_and_normalize_normals">>, 1, n)
    /\ stage \notin {"start", "done"} => stage = stages_run[Len(stages_run)]
    /\ stage = "done" => Len(stages_run) = 3
    /\ pc_detect = "idle"
    /\ StartsAfterPrevious
    /\ OneFileAtATime

\* main has returned after two files went through all three stages
Wit_C14_ThreeStagesInOrder ==
    /\ stage = "done"
    /\ Cardinality(DOMAIN output_normal) >= 2

\* the masks have been saved, or left unsaved
PastSaving == pc_detect \in {"return", "error"}

\* some place of the path holds a digit, a point and a digit in a row
HasDecimal(path) ==
    \E p \in 1..(Len(path) - 2) :
        path[p] \in Digits /\ path[p + 1] = "." /\ path[p + 2] \in Digits

\* 10 files of pairwise different names, the file of threshold t holding the
\* mask of threshold t
TenMasksSaved ==
    /\ Cardinality(DOMAIN saved) = 10
    /\ \A names \in {[t \in Thresholds |-> MaskFilename(point_cloud_file_path, t)]} :
          /\ \A t \in Thresholds :
                names[t] \in DOMAIN saved /\ saved[names[t]] = binary_mask[t]
          /\ \A t, u \in Thresholds : t /= u => names[t] /= names[u]

Denormalize(y) == Plus(Times(Over(y, 255), 2), 0 - One)

\* the next larger floating-point number
Succ(n) == IF n >= 0 THEN n + Ulp(n) ELSE 0 - ((0 - n) - Ulp((0 - n) - 1))

\* -1 is stored as 0, 0 as 127.5 and 1 as 255, and every component of a unit
\* normal is stored inside [0, 255]
FixedPointsAndRange ==
    /\ component = 0 - One => normalized_normals = 0
    /\ component = 0 => 2 * normalized_normals = 255 * One
    /\ component = One => normalized_normals = 255 * One
    /\ 0 <= normalized_normals
    /\ normalized_normals <= 255 * One

Thm_C17_EveryRunDividesAgain ==
    /\ pc_down = "done" =>
          /\ written
          /\ runs >= 1
          /\ \A m \in 1..Len(file) : file[m].pexp = runs /\ file[m].cexp = runs
    /\ (pc_down \in {"voxel", "query", "save", "done"} /\ runs >= 1) =>
          \A r \in 1..NumRows :
              /\ pcd_data[r].pexp = IF pc_down = "done" THEN runs - 1 ELSE runs
              /\ pcd_data[r].cexp = pcd_data[r].pexp + 1

\* the second run has overwritten the file
Wit_C17_EveryRunDividesAgain ==
    /\ pc_down = "done"
    /\ runs = 2
    /\ Len(file) >= 1
    /\ file[1].pexp = 2
    /\ file[1].cexp = 2
    /\ \E r \in 1..NumRows : pcd_data[r].pos[1] > 0

\* C18: process_point_clouds completes only on a table of 7 columns.  main
\* hands every table the loader wrote to it; on a table of 3, 4 or 6 columns
\* it raises IndexError at that file and leaves the file as the loader wrote
\* it, and on a table of 4 columns it has by then divided the intensity
\* column by 65536 as if it were a color.
Thm_C18_SevenColumnsOrIndexError ==
    /\ \A name \in DOMAIN output_folder :
          IsDownsampled(name) =>
              /\ input_folder[name].attrs = Attributes
              /\ Len(output_folder[name]) = 7
    /\ (stage = "process_point_clouds" /\ err_main = "none") =>
          \A name \in DOMAIN output_folder :
              Len(output_folder[name]) < 7 => name \in listing \cup {filename}
    /\ (stage = "process_point_clouds" /\ filename /= NoFile) =>
          /\ Len(loaded) = Len(output_folder[filename])
          /\ Len(loaded) = 4 =>
                (loaded[4].name = "intensity" /\ loaded[4].colordiv = 1)
          /\ Len(loaded) < 7 => ENABLED PcSave \/ err_main = "IndexError"
    /\ err_main = "IndexError" =>
          /\ stage = "process_point_clouds"
          /\ filename /= NoFile
          /\ Len(loaded) \in {3, 4, 6}
          /\ output_folder[filename] = LoaderTable(input_folder[filename])
          /\ ~IsDownsampled(filename)

\* the stage has failed on a table of x, y, z and intensity
Wit_C18_SevenColumnsOrIndexError ==
    /\ err_main = "IndexError"
    /\ stage = "process_point_clouds"
    /\ Len(loaded) = 4
    /\ loaded[4].name = "intensity"
    /\ loaded[4].colordiv = 1

\* the epochs train_model has run
EpochsRun == epoch + 1

TrainEnded == pc_train \in {"stopped", "finished"}

\* the counter is reset only in an epoch of index > 1 whose loss is below
\* best_val_loss - early_stopping_delta and grows by one in every other
\* epoch; the first two epochs count as no improvement; the loop stops at the
\* first epoch where the counter reaches the patience, and runs at most
\* `epochs` epochs
CounterRule ==
    /\ [][epoch' /= epoch =>
            /\ epoch' = epoch + 1
            /\ IF /\ epoch' > 1
                  /\ LessBy(epoch_val_loss', best_val_loss, early_stopping_delta)
               THEN /\ epochs_without_improvement' = 0
                    /\ best_val_loss' = epoch_val_loss'
               ELSE /\ epochs_without_improvement' = epochs_without_improvement + 1
                    /\ best_val_loss' = best_val_loss
            /\ pc_train' = "stopped" <=>
                  epochs_without_improvement' >= early_stopping_patience]_vars
    /\ [](/\ EpochsRun <= epochs
          /\ epoch \in {0, 1} =>
                (epochs_without_improvement = epoch + 1 /\ best_val_loss = Infinity)
          /\ (pc_train = "loop" /\ epoch >= 0) =>
                epochs_without_improvement < early_stopping_patience
          /\ pc_train = "stopped" =>
                epochs_without_improvement >= early_stopping_patience)

\* C19 (as claimed): the counter rule, and with a patience of at most 2 the
\* training stops after exactly `patience` epochs.
Claim_C19_StopsAfterPatience ==
    /\ CounterRule
    /\ []((TrainEnded /\ early_stopping_patience <= 2) =>
             EpochsRun = early_stopping_patience)

\* C19 (amended): the counter rule, and with a patience of at most 2 the
\* training runs exactly min(epochs, max(1, patience)) epochs: one epoch is
\* run before the first test, and range(epochs) may end first.
Thm_C19_StopsAfterPatienceOrEpochs ==
    /\ CounterRule
    /\ []((TrainEnded /\ early_stopping_patience <= 2) =>
             EpochsRun = LeastOf({epochs, MaxOf({1, early_stopping_patience})}))

\* with a patience of 2 the training has stopped after its second epoch,
\* though the loss of that epoch was a number
Wit_C19_StopsAfterPatienceOrEpochs ==
    /\ pc_train = "stopped"
    /\ early_stopping_patience = 2
    /\ epochs > 2
    /\ epoch = 1
    /\ epoch_val_loss = Number(0)
    /\ best_val_loss = Infinity

\* C20 (as claimed): whatever the flags, when wandb is enabled the chain of
\* conditions has assigned wandb_name and a mode-specific save_model_path
\* before wandb.init reads the name.
Claim_C20_NameBoundBeforeInit ==
    /\ err_run /= "UnboundLocalError"
    /\ (pc_run \in {"wandb", "train"} /\ opt.wandb) =>
          (wandb_name /= Unbound /\ save_model_path /= "default")

====
